---- MODULE Spec2Model ----
(***************************************************************************)
(* The to-do REST feature: routing surface with its authentication gate,  *)
(* request handlers (controllers), the data access layer and the record   *)
(* schema, over a shared document store.                                   *)
(*                                                                         *)
(* Text values (title, description) are run-length encoded strings: a     *)
(* sequence of runs [ch, n], n >= 1, adjacent runs holding different      *)
(* characters.  Absent JSON keys are absent record fields.                *)
(***************************************************************************)
EXTENDS Integers, Sequences, FiniteSets, TLC

VARIABLES store, nextId, now, toggles, last, streak, client

vars == <<store, nextId, now, toggles, last, streak, client>>

\* ------------------------------------------------------------- bounds
MaxTodos == 2
MaxClock == 1
MaxToggles == 1
MaxListed == 5
MaxRacers == 2

\* ---------------------------------------------------- program constants
MaxTitleLen == 255
MaxDescriptionLen == 1000
DefaultLimit == 50
DefaultSkip == 0

Users == {"u1", "u2"}

\* ------------------------------------------------------------ strings
Run(c, n) == <<[ch |-> c, n |-> n]>>

WhiteSpace == {" ", "\t", "\n"}

RECURSIVE StrLen(_)
StrLen(s) == IF s = <<>> THEN 0 ELSE Head(s).n + StrLen(Tail(s))

RECURSIVE TrimStart(_)
TrimStart(s) ==
  IF s = <<>> THEN s
  ELSE IF Head(s).ch \in WhiteSpace THEN TrimStart(Tail(s)) ELSE s

RECURSIVE TrimEnd(_)
TrimEnd(s) ==
  IF s = <<>> THEN s
  ELSE IF s[Len(s)].ch \in WhiteSpace THEN TrimEnd(SubSeq(s, 1, Len(s) - 1)) ELSE s

\* String.prototype.trim
Trim(s) == TrimEnd(TrimStart(s))

Has(r, k) == k \in DOMAIN r

\* JavaScript truthiness of an optional field: a status-like string, a text
Truthy(r, k) == Has(r, k) /\ r[k] # ""
TruthyText(r, k) == Has(r, k) /\ r[k] # <<>>

\* the record r restricted to the keys ks that it has
Pick(r, ks) == [k \in (DOMAIN r) \cap ks |-> r[k]]

\* object spread {...a, ...b}: b's keys win
Spread(a, b) == b @@ a

\* -------------------------------------------------------- record schema
\* zod: todoStatusSchema
todoStatusSchema(s) == s \in {"pending", "in_progress", "completed"}

todoSchemaIssuesStrict(data, partial) ==
     (IF Has(data, "title")
        THEN (IF StrLen(data.title) < 1 THEN {"Title is required"} ELSE {})
             \cup (IF StrLen(data.title) >= MaxTitleLen
                     THEN {"Title must be 255 characters or less"} ELSE {})
        ELSE IF partial THEN {} ELSE {"title: Required"})
  \cup (IF Has(data, "description") /\ StrLen(data.description) > MaxDescriptionLen
        THEN {"Description must be 1000 characters or less"} ELSE {})
  \cup (IF Has(data, "status")
        THEN (IF todoStatusSchema(data.status) THEN {} ELSE {"status: Invalid enum value"})
        ELSE IF partial THEN {} ELSE {"status: Required"})

\* zod: todoSchema.parse (partial = todoSchema.partial().parse); the set of issues
todoSchemaIssues(data, partial) ==
     (IF Has(data, "title")
        THEN (IF StrLen(data.title) < 1 THEN {"Title is required"} ELSE {})
             \cup (IF StrLen(data.title) > MaxTitleLen
                     THEN {"Title must be 255 characters or less"} ELSE {})
        ELSE IF partial THEN {} ELSE {"title: Required"})
  \cup (IF Has(data, "description") /\ StrLen(data.description) > MaxDescriptionLen
        THEN {"Description must be 1000 characters or less"} ELSE {})
  \cup (IF Has(data, "status")
        THEN (IF todoStatusSchema(data.status) THEN {} ELSE {"status: Invalid enum value"})
        ELSE IF partial THEN {} ELSE {"status: Required"})
  \cup (IF Has(data, "user")
        THEN (IF data.user = "" THEN {"User is required"} ELSE {})
        ELSE IF partial THEN {} ELSE {"user: Required"})

\* zod object parse keeps only the declared keys
todoSchemaParse(data) ==
  Pick(data, {"title", "description", "status", "user", "createdAt", "updatedAt"})

\* mongoose schema setters: trim on title and description
TodoCast(fields) ==
  [k \in DOMAIN fields |->
     IF k \in {"title", "description"} THEN Trim(fields[k]) ELSE fields[k]]

\* mongoose schema validators over the paths present (required paths on save)
TodoValid(fields, onSave) ==
  /\ IF Has(fields, "title")
       THEN StrLen(fields.title) >= 1 /\ StrLen(fields.title) <= MaxTitleLen
       ELSE ~onSave
  /\ Has(fields, "description") => StrLen(fields.description) <= MaxDescriptionLen
  /\ IF Has(fields, "status")
       THEN fields.status \in {"pending", "in_progress", "completed"}
       ELSE TRUE
  /\ IF Has(fields, "user") THEN fields.user # "" ELSE ~onSave

\* ------------------------------------------------------- results
Return(v, st) == [ok |-> TRUE, value |-> v, store |-> st]
Throw(m, st) == [ok |-> FALSE, message |-> m, store |-> st]

Respond(code, body, st) == [status |-> code, json |-> body, store |-> st]

\* !req?.user?.id
NoUserId(req) == ~(Has(req, "user") /\ Has(req.user, "id") /\ req.user.id # "")

\* the documents matching {_id: todoId, user: userId}
Matches(st, todoId, userId) == todoId \in DOMAIN st /\ st[todoId].user = userId

\* ---------------------------------------------------- data access layer
createTodoUnvalidated(st, nid, t, req, todoData, ok) ==
  IF NoUserId(req) THEN Throw("User not authenticated", st)
  ELSE LET doc == Spread(todoData, [user |-> req.user.id, id |-> nid,
                                    createdAt |-> t, updatedAt |-> t])
       IN Return(doc, (nid :> doc) @@ st)

createTodoForcePending(st, nid, t, req, todoData, ok) ==
  IF NoUserId(req) THEN Throw("User not authenticated", st)
  ELSE
    LET data == Spread(todoData, [user |-> req.user.id, status |-> "pending"])
    IN IF todoSchemaIssues(data, FALSE) # {} THEN Throw("ZodError", st)
       ELSE
         LET fields == TodoCast(todoSchemaParse(data))
             doc == Spread(fields, [id |-> nid, createdAt |-> t, updatedAt |-> t])
         IN IF ~TodoValid(fields, TRUE) THEN Throw("ValidationError", st)
            ELSE IF ~ok THEN Throw("StorageError", st)
            ELSE Return(doc, (nid :> doc) @@ st)

createTodo(st, nid, t, req, todoData, ok) ==
  IF NoUserId(req) THEN Throw("User not authenticated", st)
  ELSE
    LET data == Spread(todoData,
                  [user |-> req.user.id,
                   status |-> IF Truthy(todoData, "status") THEN todoData.status
                              ELSE "pending"])
    IN IF todoSchemaIssues(data, FALSE) # {} THEN Throw("ZodError", st)
       ELSE
         LET fields == TodoCast(todoSchemaParse(data))
             doc == Spread(fields, [id |-> nid, createdAt |-> t, updatedAt |-> t])
         IN IF ~TodoValid(fields, TRUE) THEN Throw("ValidationError", st)
            ELSE IF ~ok THEN Throw("StorageError", st)
            ELSE Return(doc, (nid :> doc) @@ st)

Digits == <<"0", "1", "2", "3", "4", "5", "6", "7", "8", "9">>
DigitVal(c) == (CHOOSE i \in 1..10 : Digits[i] = c) - 1

\* parseInt on a string of decimal digits
RECURSIVE parseInt(_)
parseInt(s) ==
  IF s = <<>> THEN 0 ELSE 10 * parseInt(SubSeq(s, 1, Len(s) - 1)) + DigitVal(s[Len(s)])

SeqRange(q) == {q[i] : i \in 1..Len(q)}

\* ord is the store's answer to find(filter).sort({createdAt: -1}): the matching
\* ids, newest first, equal timestamps in any order
SortedFind(st, ids, ord) ==
  /\ Len(ord) = Cardinality(ids)
  /\ SeqRange(ord) = ids
  /\ \A i, j \in 1..Len(ord) : i < j => st[ord[i]].createdAt >= st[ord[j]].createdAt

\* every answer the store can give to find(ids).sort({createdAt: -1})
RECURSIVE SortOutcomes(_, _)
SortOutcomes(st, ids) ==
  IF ids = {} THEN {<<>>}
  ELSE UNION {{<<i>> \o o : o \in SortOutcomes(st, ids \ {i})} :
                i \in {j \in ids : \A k \in ids : st[j].createdAt >= st[k].createdAt}}

Min2(a, b) == IF a < b THEN a ELSE b

getTodosFilterAnyStatus(st, req, query) ==
  {i \in DOMAIN st :
     /\ st[i].user = req.user.id
     /\ Truthy(query, "status") => st[i].status = query.status}

getTodosFilter(st, req, query) ==
  {i \in DOMAIN st :
     /\ st[i].user = req.user.id
     /\ (Truthy(query, "status") /\ query.status \in {"pending", "in_progress", "completed"})
          => st[i].status = query.status}

getTodosLimitFirst(st, req, query, ok, ord) ==
  IF NoUserId(req) THEN Throw("User not authenticated", st)
  ELSE
    LET limit == IF Has(query, "limit") THEN parseInt(query.limit) ELSE DefaultLimit
        skip == IF Has(query, "skip") THEN parseInt(query.skip) ELSE DefaultSkip
        upto == IF limit = 0 THEN Len(ord) ELSE Min2(Len(ord), limit)
    IN IF ~ok THEN Throw("StorageError", st)
       ELSE Return([k \in 1..(IF upto > skip THEN upto - skip ELSE 0) |-> st[ord[skip + k]]], st)

getTodos(st, req, query, ok, ord) ==
  IF NoUserId(req) THEN Throw("User not authenticated", st)
  ELSE
    LET limit == IF Has(query, "limit") THEN parseInt(query.limit) ELSE DefaultLimit
        skip == IF Has(query, "skip") THEN parseInt(query.skip) ELSE DefaultSkip
        upto == IF limit = 0 THEN Len(ord) ELSE Min2(Len(ord), skip + limit)
    IN IF ~ok THEN Throw("StorageError", st)
       ELSE Return([k \in 1..(IF upto > skip THEN upto - skip ELSE 0) |-> st[ord[skip + k]]], st)

getTodoAnyOwner(st, req, todoId, ok) ==
  IF NoUserId(req) THEN Throw("User not authenticated", st)
  ELSE IF ~ok THEN Throw("StorageError", st)
  ELSE IF todoId \notin DOMAIN st THEN Throw("Todo not found", st)
  ELSE Return(st[todoId], st)

getTodo(st, req, todoId, ok) ==
  IF NoUserId(req) THEN Throw("User not authenticated", st)
  ELSE IF ~ok THEN Throw("StorageError", st)
  ELSE IF ~Matches(st, todoId, req.user.id) THEN Throw("Todo not found", st)
  ELSE Return(st[todoId], st)

updateTodoUpsert(st, t, req, todoId, updateData, ok) ==
  IF NoUserId(req) THEN Throw("User not authenticated", st)
  ELSE
    LET data == Spread(updateData, [user |-> req.user.id])
    IN IF todoSchemaIssues(data, TRUE) # {} THEN Throw("ZodError", st)
       ELSE
         LET fields == TodoCast(Spread(todoSchemaParse(data), [updatedAt |-> t]))
             doc == IF Matches(st, todoId, req.user.id) THEN Spread(st[todoId], fields)
                    ELSE Spread(fields, [id |-> todoId])
         IN IF ~ok THEN Throw("StorageError", st)
            ELSE Return(doc, (todoId :> doc) @@ [i \in (DOMAIN st) \ {todoId} |-> st[i]])

updateTodoReturnOld(st, t, req, todoId, updateData, ok) ==
  IF NoUserId(req) THEN Throw("User not authenticated", st)
  ELSE
    LET data == Spread(updateData, [user |-> req.user.id])
    IN IF todoSchemaIssues(data, TRUE) # {} THEN Throw("ZodError", st)
       ELSE
         LET fields == TodoCast(Spread(todoSchemaParse(data), [updatedAt |-> t]))
         IN IF ~TodoValid(fields, FALSE) THEN Throw("ValidationError", st)
            ELSE IF ~ok THEN Throw("StorageError", st)
            ELSE IF ~Matches(st, todoId, req.user.id) THEN Throw("Todo not found", st)
            ELSE LET doc == Spread(st[todoId], fields)
                 IN Return(st[todoId], [st EXCEPT ![todoId] = doc])

updateTodoReplace(st, t, req, todoId, updateData, ok) ==
  IF NoUserId(req) THEN Throw("User not authenticated", st)
  ELSE
    LET data == Spread(updateData, [user |-> req.user.id])
    IN IF todoSchemaIssues(data, TRUE) # {} THEN Throw("ZodError", st)
       ELSE
         LET fields == TodoCast(Spread(todoSchemaParse(data), [updatedAt |-> t]))
         IN IF ~TodoValid(fields, FALSE) THEN Throw("ValidationError", st)
            ELSE IF ~ok THEN Throw("StorageError", st)
            ELSE IF ~Matches(st, todoId, req.user.id) THEN Throw("Todo not found", st)
            ELSE LET doc == Spread([id |-> todoId, createdAt |-> st[todoId].createdAt,
                                    title |-> st[todoId].title, status |-> "pending"],
                                   fields)
                 IN Return(doc, [st EXCEPT ![todoId] = doc])

updateTodo(st, t, req, todoId, updateData, ok) ==
  IF NoUserId(req) THEN Throw("User not authenticated", st)
  ELSE
    LET data == Spread(updateData, [user |-> req.user.id])
    IN IF todoSchemaIssues(data, TRUE) # {} THEN Throw("ZodError", st)
       ELSE
         LET fields == TodoCast(Spread(todoSchemaParse(data), [updatedAt |-> t]))
         IN IF ~TodoValid(fields, FALSE) THEN Throw("ValidationError", st)
            ELSE IF ~ok THEN Throw("StorageError", st)
            ELSE IF ~Matches(st, todoId, req.user.id) THEN Throw("Todo not found", st)
            ELSE LET doc == Spread(st[todoId], fields)
                 IN Return(doc, [st EXCEPT ![todoId] = doc])

deleteTodoSoft(st, req, todoId, ok) ==
  IF NoUserId(req) THEN Throw("User not authenticated", st)
  ELSE IF ~ok THEN Throw("StorageError", st)
  ELSE IF ~Matches(st, todoId, req.user.id) THEN Throw("Todo not found", st)
  ELSE Return(TRUE, st)

deleteTodo(st, req, todoId, ok) ==
  IF NoUserId(req) THEN Throw("User not authenticated", st)
  ELSE IF ~ok THEN Throw("StorageError", st)
  ELSE IF ~Matches(st, todoId, req.user.id) THEN Throw("Todo not found", st)
  ELSE Return(TRUE, [i \in (DOMAIN st) \ {todoId} |-> st[i]])

NextStatusFlip(s) ==
  CASE s = "pending" -> "in_progress"
    [] s = "in_progress" -> "pending"
    [] s = "completed" -> "pending"
    [] OTHER -> "pending"

NextStatusStuck(s) ==
  CASE s = "pending" -> "in_progress"
    [] s = "in_progress" -> "completed"
    [] s = "completed" -> "completed"
    [] OTHER -> "pending"

\* the switch of toggleTodoStatus
NextStatus(s) ==
  CASE s = "pending" -> "in_progress"
    [] s = "in_progress" -> "completed"
    [] s = "completed" -> "pending"
    [] OTHER -> "pending"

\* toggleTodoStatus up to its second await: the read and the computed status
toggleTodoStatusRead(st, req, todoId, ok) ==
  IF NoUserId(req) THEN Throw("User not authenticated", st)
  ELSE IF ~ok THEN Throw("StorageError", st)
  ELSE IF ~Matches(st, todoId, req.user.id) THEN Throw("Todo not found", st)
  ELSE Return([status |-> st[todoId].status, newStatus |-> NextStatus(st[todoId].status)], st)

toggleTodoStatusWriteIfUnchanged(st, t, req, todoId, newStatus, ok) ==
  LET fields == [status |-> newStatus, updatedAt |-> t]
  IN IF ~TodoValid(fields, FALSE) THEN Throw("ValidationError", st)
     ELSE IF ~ok THEN Throw("StorageError", st)
     ELSE IF ~(Matches(st, todoId, req.user.id) /\ NextStatus(st[todoId].status) = newStatus)
       THEN Return([isNull |-> TRUE], st)
     ELSE LET doc == Spread(st[todoId], fields)
          IN Return(doc, [st EXCEPT ![todoId] = doc])

toggleTodoStatusWriteNoTouch(st, t, req, todoId, newStatus, ok) ==
  LET fields == [status |-> newStatus]
  IN IF ~TodoValid(fields, FALSE) THEN Throw("ValidationError", st)
     ELSE IF ~ok THEN Throw("StorageError", st)
     ELSE IF ~Matches(st, todoId, req.user.id) THEN Return([isNull |-> TRUE], st)
     ELSE LET doc == Spread(st[todoId], fields)
          IN Return(doc, [st EXCEPT ![todoId] = doc])

toggleTodoStatusWriteUpsert(st, t, req, todoId, newStatus, ok) ==
  LET fields == [status |-> newStatus, updatedAt |-> t]
  IN IF ~TodoValid(fields, FALSE) THEN Throw("ValidationError", st)
     ELSE IF ~ok THEN Throw("StorageError", st)
     ELSE LET doc == IF Matches(st, todoId, req.user.id) THEN Spread(st[todoId], fields)
                     ELSE Spread(fields, [id |-> todoId, user |-> req.user.id])
          IN Return(doc, (todoId :> doc) @@ [i \in (DOMAIN st) \ {todoId} |-> st[i]])

toggleTodoStatusWriteReplace(st, t, req, todoId, newStatus, ok) ==
  LET fields == [status |-> newStatus, updatedAt |-> t]
  IN IF ~TodoValid(fields, FALSE) THEN Throw("ValidationError", st)
     ELSE IF ~ok THEN Throw("StorageError", st)
     ELSE IF ~Matches(st, todoId, req.user.id) THEN Return([isNull |-> TRUE], st)
     ELSE LET doc == Spread(Pick(st[todoId], {"id", "user", "createdAt"}), fields)
          IN Return(doc, [st EXCEPT ![todoId] = doc])

\* toggleTodoStatus from its second await: the write; null when nothing matched
toggleTodoStatusWrite(st, t, req, todoId, newStatus, ok) ==
  LET fields == [status |-> newStatus, updatedAt |-> t]
  IN IF ~TodoValid(fields, FALSE) THEN Throw("ValidationError", st)
     ELSE IF ~ok THEN Throw("StorageError", st)
     ELSE IF ~Matches(st, todoId, req.user.id) THEN Return([isNull |-> TRUE], st)
     ELSE LET doc == Spread(st[todoId], fields)
          IN Return(doc, [st EXCEPT ![todoId] = doc])

\* ------------------------------------------------------ request handlers
\* a request of the authenticated user u
ReqOf(u) == [user |-> [id |-> u]]

Failure(m) == [success |-> FALSE, message |-> m]

\* error.message === 'Todo not found' ? 404 : 500
NotFoundOr500(m) == IF m = "Todo not found" THEN 404 ELSE 500

getTodosControllerSwallow(st, req, query, ok, ord) ==
  LET r == getTodos(st, req, Pick(query, {"status", "limit", "skip"}), ok, ord)
  IN IF r.ok
       THEN Respond(200, [success |-> TRUE, data |-> r.value, count |-> Len(r.value)], r.store)
       ELSE Respond(200, [success |-> TRUE, data |-> <<>>, count |-> 0], r.store)

getTodosController(st, req, query, ok, ord) ==
  LET r == getTodos(st, req, Pick(query, {"status", "limit", "skip"}), ok, ord)
  IN IF r.ok
       THEN Respond(200, [success |-> TRUE, data |-> r.value, count |-> Len(r.value)], r.store)
       ELSE Respond(500, Failure(r.message), r.store)

getTodoController(st, req, id, ok) ==
  LET r == getTodo(st, req, id, ok)
  IN IF r.ok
       THEN Respond(200, [success |-> TRUE, data |-> r.value], r.store)
       ELSE Respond(NotFoundOr500(r.message), Failure(r.message), r.store)

createTodoControllerBodyUser(st, nid, t, req, body, ok) ==
  IF ~TruthyText(body, "title") \/ StrLen(Trim(body.title)) = 0
    THEN Respond(400, Failure("Title is required"), st)
    ELSE
      LET todoData == [title |-> Trim(body.title), status |-> "pending"]
          r == createTodo(st, nid, t,
                          IF Has(body, "user") THEN ReqOf(body.user) ELSE req, todoData, ok)
      IN IF r.ok
           THEN Respond(201, [success |-> TRUE, data |-> r.value,
                              message |-> "Todo created successfully"], r.store)
           ELSE Respond(500, Failure(r.message), r.store)

createTodoController(st, nid, t, req, body, ok) ==
  IF ~TruthyText(body, "title") \/ StrLen(Trim(body.title)) = 0
    THEN Respond(400, Failure("Title is required"), st)
    ELSE
      LET todoData ==
            Spread(Spread([title |-> Trim(body.title)],
                          IF Has(body, "description")
                            THEN [description |-> Trim(body.description)] ELSE <<>>),
                   [status |-> IF Truthy(body, "status") THEN body.status ELSE "pending"])
          r == createTodo(st, nid, t, req, todoData, ok)
      IN IF r.ok
           THEN Respond(201, [success |-> TRUE, data |-> r.value,
                              message |-> "Todo created successfully"], r.store)
           ELSE Respond(500, Failure(r.message), r.store)

updateTodoControllerWholeBody(st, t, req, id, body, ok) ==
  IF Has(body, "title") /\ (~TruthyText(body, "title") \/ StrLen(Trim(body.title)) = 0)
    THEN Respond(400, Failure("Title cannot be empty"), st)
  ELSE IF Has(body, "status") /\ body.status \notin {"pending", "in_progress", "completed"}
    THEN Respond(400,
           Failure("Invalid status. Must be one of: pending, in_progress, completed"), st)
  ELSE
    LET r == updateTodo(st, t, req, id, body, ok)
    IN IF r.ok
         THEN Respond(200, [success |-> TRUE, data |-> r.value,
                            message |-> "Todo updated successfully"], r.store)
         ELSE Respond(NotFoundOr500(r.message), Failure(r.message), r.store)

updateTodoController(st, t, req, id, body, ok) ==
  IF Has(body, "title") /\ (~TruthyText(body, "title") \/ StrLen(Trim(body.title)) = 0)
    THEN Respond(400, Failure("Title cannot be empty"), st)
  ELSE IF Has(body, "status") /\ body.status \notin {"pending", "in_progress", "completed"}
    THEN Respond(400,
           Failure("Invalid status. Must be one of: pending, in_progress, completed"), st)
  ELSE
    LET updateData ==
          Spread(Spread(IF Has(body, "title") THEN [title |-> Trim(body.title)] ELSE <<>>,
                        IF Has(body, "description")
                          THEN [description |-> Trim(body.description)] ELSE <<>>),
                 IF Has(body, "status") THEN [status |-> body.status] ELSE <<>>)
        r == updateTodo(st, t, req, id, updateData, ok)
    IN IF r.ok
         THEN Respond(200, [success |-> TRUE, data |-> r.value,
                            message |-> "Todo updated successfully"], r.store)
         ELSE Respond(NotFoundOr500(r.message), Failure(r.message), r.store)

deleteTodoController(st, req, id, ok) ==
  LET r == deleteTodo(st, req, id, ok)
  IN IF r.ok
       THEN Respond(200, [success |-> TRUE, message |-> "Todo deleted successfully"], r.store)
       ELSE Respond(NotFoundOr500(r.message), Failure(r.message), r.store)

\* `Todo status changed to ${todo.status}`
StatusChangedMessage(s) ==
  CASE s = "pending" -> "Todo status changed to pending"
    [] s = "in_progress" -> "Todo status changed to in_progress"
    [] s = "completed" -> "Todo status changed to completed"
    [] OTHER -> "Todo status changed to ?"

toggleTodoStatusControllerNullData(r) ==
  IF ~r.ok THEN Respond(NotFoundOr500(r.message), Failure(r.message), r.store)
  ELSE IF Has(r.value, "isNull")
    THEN Respond(200, [success |-> TRUE, message |-> "Todo status changed to ?"], r.store)
    ELSE Respond(200, [success |-> TRUE, data |-> r.value,
                       message |-> StatusChangedMessage(r.value.status)], r.store)

\* toggleTodoStatusController once toggleTodoStatus has settled with r
toggleTodoStatusController(r) ==
  IF ~r.ok THEN Respond(NotFoundOr500(r.message), Failure(r.message), r.store)
  ELSE IF Has(r.value, "isNull")
    THEN Respond(500, Failure("Cannot read properties of null (reading 'status')"), r.store)
    ELSE Respond(200, [success |-> TRUE, data |-> r.value,
                       message |-> StatusChangedMessage(r.value.status)], r.store)

\* ------------------------------------------------------- routing surface
Unauthorized ==
  [success |-> FALSE, message |-> "Authentication required", error |-> "UNAUTHORIZED"]

\* what requireJwtAuth hands its callback: an error, no user, or a user record
JwtOutcomes ==
       {[err |-> TRUE], [err |-> FALSE], [err |-> FALSE, user |-> <<>>]}
  \cup {[err |-> FALSE, user |-> [id |-> u]] : u \in Users}

JwtOf(u) == [err |-> FALSE, user |-> [id |-> u]]

UserJwts == {j \in JwtOutcomes : Has(j, "user") /\ Has(j.user, "id")}

todoAuthMiddlewareErrOnly(jwt) == ~jwt.err

\* TRUE when the middleware calls next()
todoAuthMiddleware(jwt) == ~jwt.err /\ Has(jwt, "user")

\* the request as the handlers see it
Req(jwt) == Pick(jwt, {"user"})

\* router.use(todoAuthMiddleware) in front of a handler's answer
Route(jwt, st, answer) ==
  IF todoAuthMiddleware(jwt) THEN answer ELSE Respond(401, Unauthorized, st)

\* who a request is from: a user id, a session whose user record has no id, no session
Caller(jwt) ==
  IF jwt \in UserJwts THEN jwt.user.id
  ELSE IF ~jwt.err /\ Has(jwt, "user") THEN "noid" ELSE "anonymous"

\* ------------------------------------------------------------- inputs
TitleA == Run("a", 1)
PaddedA == Run(" ", 1) \o Run("a", 1) \o Run(" ", 2)
DescD == Run("d", 1)

TitleInputs ==
  {<<>>, Run(" ", 2), PaddedA, Run("a", MaxTitleLen),
   Run("\t", 1) \o Run("a", MaxTitleLen), Run("a", MaxTitleLen + 1)}

DescriptionInputs == {Run(" ", 1) \o DescD, Run("d", MaxDescriptionLen + 1)}

StatusInputs == {"pending", "in_progress", "completed", "bogus", ""}

DefaultBody == [title |-> TitleA]

\* bodies that vary the owner and the status, the text fields fixed
CreateBodies ==
       {<<>>, DefaultBody, [title |-> TitleA, user |-> "u2", owner |-> "u2"]}
  \cup {[title |-> TitleA, status |-> s] : s \in StatusInputs}

UpdateBodies ==
  {<<>>, [user |-> "u2", owner |-> "u2"], [title |-> <<>>],
   [status |-> "completed"], [status |-> "bogus"]}

\* bodies that vary the text fields
CreateTextBodies ==
       {[title |-> t] : t \in TitleInputs}
  \cup {[title |-> TitleA, description |-> d] : d \in DescriptionInputs}
  \cup {[title |-> TitleA, status |-> "bogus"]}

UpdateTextBodies ==
       {<<>>, [title |-> Run("a", MaxTitleLen), description |-> DescD, status |-> "completed"]}
  \cup {[title |-> t] : t \in TitleInputs}
  \cup {[description |-> d] : d \in DescriptionInputs}
  \cup {[status |-> "bogus"]}

Queries ==
  {<<>>, [limit |-> <<"1">>, skip |-> <<"1">>], [status |-> "pending"], [status |-> "bogus"]}

\* 0 is an id no document ever has
ReqIds == 0..MaxTodos

\* a request's inputs <<jwt, id, payload, ok>>: every id and payload with an
\* authenticated caller and a working store; one id and payload with every outcome
\* of the authentication and with a failing store
Inputs(callers, ids, payloads, id0, payload0) ==
       {<<j, i, p, TRUE>> : j \in callers, i \in ids, p \in payloads}
  \cup {<<j, id0, payload0, TRUE>> : j \in JwtOutcomes}
  \cup {<<JwtOf("u1"), id0, payload0, FALSE>>}

\* -------------------------------------------------------------- state
Idle == [pc |-> "idle"]

\* the page before it is opened: no list query fetched, no mutation sent
ClientIdle ==
  [query |-> [status |-> "idle", fetching |-> FALSE, failureCount |-> 0, sent |-> 0],
   mutation |-> [status |-> "idle", op |-> "none", sent |-> 0]]

\* observer: the toggles completed one after the other on item id, nothing else
\* touching it, since it had the status `from`
NoStreak == [id |-> 0]

Init ==
  /\ store = <<>>
  /\ nextId = 1
  /\ now = 0
  /\ toggles = [r \in 1..MaxToggles |-> Idle]
  /\ last = [op |-> "none"]
  /\ streak = NoStreak
  /\ client = ClientIdle

Answer(op, jwt, id, a) ==
  /\ store' = a.store
  /\ last' = [op |-> op, caller |-> Caller(jwt), id |-> id,
              status |-> a.status, json |-> a.json]

ListRequest(jwt, query, ok) ==
  /\ IF todoAuthMiddleware(jwt) /\ ~NoUserId(Req(jwt))
       THEN \E ord \in SortOutcomes(store, getTodosFilter(store, Req(jwt), query)) :
              /\ SortedFind(store, getTodosFilter(store, Req(jwt), query), ord)
              /\ Answer("list", jwt, 0, Route(jwt, store,
                                      getTodosController(store, Req(jwt), query, ok, ord)))
       ELSE Answer("list", jwt, 0, Route(jwt, store,
                                 getTodosController(store, Req(jwt), query, ok, <<>>)))
  /\ UNCHANGED <<nextId, now, toggles>>

GetRequest(jwt, id, ok) ==
  /\ Answer("get", jwt, id, Route(jwt, store, getTodoController(store, Req(jwt), id, ok)))
  /\ UNCHANGED <<nextId, now, toggles>>

\* POST /, the store holding at most max items
CreateRequestUpTo(max, jwt, body, ok) ==
  /\ nextId <= max
  /\ Answer("create", jwt, 0,
            Route(jwt, store, createTodoController(store, nextId, now, Req(jwt), body, ok)))
  /\ nextId' = IF nextId \in DOMAIN store' THEN nextId + 1 ELSE nextId
  /\ UNCHANGED <<now, toggles>>

CreateRequest(jwt, body, ok) == CreateRequestUpTo(MaxTodos, jwt, body, ok)

UpdateRequest(jwt, id, body, ok) ==
  /\ Answer("update", jwt, id,
            Route(jwt, store, updateTodoController(store, now, Req(jwt), id, body, ok)))
  /\ UNCHANGED <<nextId, now, toggles>>

DeleteRequest(jwt, id, ok) ==
  /\ Answer("delete", jwt, id, Route(jwt, store, deleteTodoController(store, Req(jwt), id, ok)))
  /\ UNCHANGED <<nextId, now, toggles>>

\* PATCH /:id/toggle up to the handler's second await
ToggleRequest(r, jwt, id, ok) ==
  /\ toggles[r] = Idle
  /\ LET read == toggleTodoStatusRead(store, Req(jwt), id, ok)
     IN IF todoAuthMiddleware(jwt) /\ read.ok
          THEN /\ toggles' = [toggles EXCEPT ![r] =
                                [pc |-> "write", req |-> Req(jwt), id |-> id,
                                 status |-> read.value.status,
                                 newStatus |-> read.value.newStatus]]
               /\ UNCHANGED <<store, last>>
          ELSE /\ Answer("toggle", jwt, id, Route(jwt, store, toggleTodoStatusController(read)))
               /\ UNCHANGED toggles
  /\ UNCHANGED <<nextId, now>>

\* the rest of the handler: the write, the answer
ToggleResume(r, ok) ==
  /\ toggles[r].pc = "write"
  /\ LET t == toggles[r]
     IN Answer("toggle", [err |-> FALSE] @@ t.req, t.id,
               toggleTodoStatusController(
                 toggleTodoStatusWrite(store, now, t.req, t.id, t.newStatus, ok)))
  /\ toggles' = [toggles EXCEPT ![r] = Idle]
  /\ UNCHANGED <<nextId, now>>

\* time passes between calls of new Date()
TickUpTo(max) ==
  /\ now < max
  /\ now' = now + 1
  /\ UNCHANGED <<store, nextId, toggles, last, streak, client>>

Tick == TickUpTo(MaxClock)

\* the observer's step, read off the step the handlers took
Observe ==
  LET started == {r \in DOMAIN toggles : toggles[r] = Idle /\ toggles'[r] # Idle}
      resumed == {r \in DOMAIN toggles : toggles[r] # Idle /\ toggles'[r] = Idle}
      inFlight(id) == {r \in DOMAIN toggles : toggles[r] # Idle /\ toggles[r].id = id}
  IN streak' =
       IF started # {}
         THEN LET t == toggles'[CHOOSE r \in started : TRUE]
              IN IF inFlight(t.id) # {}
                   THEN (IF streak.id = t.id THEN NoStreak ELSE streak)
                 ELSE IF streak.id = 0 \/ (streak.id = t.id /\ streak.n = 3)
                   THEN [id |-> t.id, from |-> t.status, n |-> 0]
                 ELSE streak
       ELSE IF resumed # {}
         THEN LET t == toggles[CHOOSE r \in resumed : TRUE]
              IN IF streak.id = t.id /\ last'.json.success
                   THEN [streak EXCEPT !.n = @ + 1]
                   ELSE streak
       ELSE IF /\ last'.op \in {"update", "delete"}
               /\ last'.id = streak.id
               /\ last'.json.success
         THEN NoStreak
       ELSE streak

Next ==
  \/ \E i \in Inputs(UserJwts, {0}, Queries, 0, <<>>) :
       ListRequest(i[1], i[3], i[4]) /\ UNCHANGED <<streak, client>>
  \/ \E i \in Inputs(UserJwts, ReqIds, {<<>>}, 1, <<>>) :
       GetRequest(i[1], i[2], i[4]) /\ UNCHANGED <<streak, client>>
  \/ \E i \in Inputs(UserJwts, {0}, CreateBodies, 0, DefaultBody) :
       CreateRequest(i[1], i[3], i[4]) /\ UNCHANGED <<streak, client>>
  \/ \E i \in Inputs(UserJwts, ReqIds, UpdateBodies, 1, <<>>) :
       UpdateRequest(i[1], i[2], i[3], i[4]) /\ UNCHANGED <<streak, client>>
  \/ \E i \in Inputs(UserJwts, ReqIds, {<<>>}, 1, <<>>) :
       DeleteRequest(i[1], i[2], i[4]) /\ UNCHANGED <<streak, client>>
  \/ \E r \in DOMAIN toggles, i \in Inputs(UserJwts, ReqIds, {<<>>}, 1, <<>>) :
       ToggleRequest(r, i[1], i[2], i[4]) /\ UNCHANGED <<streak, client>>
  \/ \E r \in DOMAIN toggles, ok \in BOOLEAN : ToggleResume(r, ok) /\ UNCHANGED <<streak, client>>

Spec == Init /\ [][Next]_vars

\* the same handlers under payloads that vary the text fields
NextFields ==
  \/ \E i \in Inputs({JwtOf("u1")}, {0}, CreateTextBodies, 0, DefaultBody) :
       CreateRequest(i[1], i[3], i[4]) /\ UNCHANGED <<streak, client>>
  \/ \E i \in Inputs({JwtOf("u1")}, 1..MaxTodos, UpdateTextBodies, 0, <<>>) :
       UpdateRequest(i[1], i[2], i[3], i[4]) /\ UNCHANGED <<streak, client>>
  \/ \E i \in Inputs({JwtOf("u1")}, 1..MaxTodos, {<<>>}, 0, <<>>) :
       DeleteRequest(i[1], i[2], i[4]) /\ UNCHANGED <<streak, client>>

SpecFields == Init /\ [][NextFields]_vars

\* one caller creating, toggling, updating and deleting items, the observer counting
CycleBodies == {[title |-> TitleA, status |-> s] : s \in {"pending", "in_progress", "completed"}}

NextCycle ==
  \/ \E b \in CycleBodies : CreateRequest(JwtOf("u1"), b, TRUE) /\ Observe /\ UNCHANGED client
  \/ \E id \in 1..MaxTodos :
       UpdateRequest(JwtOf("u1"), id, [status |-> "completed"], TRUE) /\ Observe /\ UNCHANGED client
  \/ \E id \in 1..MaxTodos : DeleteRequest(JwtOf("u1"), id, TRUE) /\ Observe /\ UNCHANGED client
  \/ \E r \in DOMAIN toggles, id \in 1..MaxTodos :
       ToggleRequest(r, JwtOf("u1"), id, TRUE) /\ Observe /\ UNCHANGED client
  \/ \E r \in DOMAIN toggles : ToggleResume(r, TRUE) /\ Observe /\ UNCHANGED client

SpecCycle == Init /\ [][NextCycle]_vars

\* one caller's items updated and toggled over time, by the owner and by another caller
TitleB == Run("b", 1)
DescE == Run("e", 1)

FrameBodies ==
  {<<>>,
   [title |-> Run(" ", 1) \o TitleB],
   [description |-> DescE \o Run(" ", 1)],
   [status |-> "completed"],
   [title |-> TitleB, description |-> DescE, status |-> "in_progress",
    id |-> 9, user |-> "u2", owner |-> "u2", createdAt |-> 9, updatedAt |-> 9]}

NextClock ==
  \/ CreateRequest(JwtOf("u1"), DefaultBody, TRUE) /\ UNCHANGED <<streak, client>>
  \/ \E jwt \in UserJwts, id \in 1..MaxTodos, b \in FrameBodies :
       UpdateRequest(jwt, id, b, TRUE) /\ UNCHANGED <<streak, client>>
  \/ \E id \in 1..MaxTodos : DeleteRequest(JwtOf("u1"), id, TRUE) /\ UNCHANGED <<streak, client>>
  \/ \E r \in DOMAIN toggles, jwt \in UserJwts, id \in 1..MaxTodos :
       ToggleRequest(r, jwt, id, TRUE) /\ UNCHANGED <<streak, client>>
  \/ \E r \in DOMAIN toggles : ToggleResume(r, TRUE) /\ UNCHANGED <<streak, client>>
  \/ Tick

SpecClock == Init /\ [][NextClock]_vars

\* one caller's requests over several connections, toggles of one item in flight
\* together; the observer follows two toggles that read the same status of an item
\* before either wrote: n of them have written
InitRace ==
  /\ store = <<>>
  /\ nextId = 1
  /\ now = 0
  /\ toggles = [r \in 1..MaxRacers |-> Idle]
  /\ last = [op |-> "none"]
  /\ streak = NoStreak
  /\ client = ClientIdle

ObserveRace ==
  LET started == {r \in DOMAIN toggles : toggles[r] = Idle /\ toggles'[r] # Idle}
      resumed == {r \in DOMAIN toggles : toggles[r] # Idle /\ toggles'[r] = Idle}
  IN streak' =
       IF streak.id # 0 /\ streak.n < 2
         THEN IF resumed \cap streak.racers # {}
                THEN IF last'.json.success
                       THEN [streak EXCEPT !.n = @ + 1, !.racers = @ \ resumed]
                       ELSE NoStreak
                ELSE streak
       ELSE IF started # {}
         THEN LET r == CHOOSE x \in started : TRUE
                  t == toggles'[r]
                  rivals == {x \in DOMAIN toggles \ {r} :
                               /\ toggles[x] # Idle
                               /\ toggles[x].id = t.id
                               /\ toggles[x].status = t.status}
              IN IF rivals = {} THEN NoStreak
                 ELSE [id |-> t.id, from |-> t.status, n |-> 0,
                       racers |-> {r, CHOOSE x \in rivals : TRUE}]
       ELSE NoStreak

NextRace ==
  \/ CreateRequest(JwtOf("u1"), DefaultBody, TRUE) /\ ObserveRace /\ UNCHANGED client
  \/ \E id \in 1..MaxTodos :
       UpdateRequest(JwtOf("u1"), id, [status |-> "completed"], TRUE) /\ ObserveRace /\ UNCHANGED client
  \/ \E id \in 1..MaxTodos : DeleteRequest(JwtOf("u1"), id, TRUE) /\ ObserveRace /\ UNCHANGED client
  \/ \E r \in DOMAIN toggles, id \in 1..MaxTodos :
       ToggleRequest(r, JwtOf("u1"), id, TRUE) /\ ObserveRace /\ UNCHANGED client
  \/ \E r \in DOMAIN toggles : ToggleResume(r, TRUE) /\ ObserveRace /\ UNCHANGED client

SpecRace == InitRace /\ [][NextRace]_vars

\* up to two toggles of one item, with updates and deletions of it landing between
\* their reads and writes. The observer follows the item from the first toggle's
\* read: how many toggles read it (reads), wrote it (n) or failed to (failed),
\* whether the second read while the first was in flight (overlap), which of them
\* are in flight (racers), and what else changed the item meanwhile (others)
PairBodies == {[status |-> "completed"], [title |-> TitleB, description |-> DescE]}

ObservePair(did) ==
  LET started == {r \in DOMAIN toggles : toggles[r] = Idle /\ toggles'[r] # Idle}
      resumed == {r \in DOMAIN toggles : toggles[r] # Idle /\ toggles'[r] = Idle}
      followed == streak.id # 0
      settled == followed /\ streak.racers = {}
      flying(id) == {r \in DOMAIN toggles : toggles[r] # Idle /\ toggles[r].id = id}
  IN streak' =
       IF started # {}
         THEN LET r == CHOOSE x \in started : TRUE
                  t == toggles'[r]
              IN IF followed /\ streak.id = t.id /\ streak.reads < 2
                   THEN [streak EXCEPT !.reads = 2, !.racers = @ \cup {r},
                                       !.overlap = (streak.racers # {})]
                 ELSE IF followed /\ ~settled
                   THEN (IF streak.id = t.id THEN NoStreak ELSE streak)
                 ELSE IF flying(t.id) = {}
                   THEN [id |-> t.id, from |-> t.status, reads |-> 1, n |-> 0,
                         failed |-> 0, overlap |-> FALSE, racers |-> {r}, others |-> {}]
                 ELSE NoStreak
       ELSE IF resumed # {}
         THEN LET r == CHOOSE x \in resumed : TRUE
              IN IF followed /\ r \in streak.racers
                   THEN IF last'.json.success
                          THEN [streak EXCEPT !.n = @ + 1, !.racers = @ \ {r}]
                          ELSE [streak EXCEPT !.failed = @ + 1, !.racers = @ \ {r}]
                 ELSE IF followed /\ streak.id = toggles[r].id THEN NoStreak
                 ELSE streak
       ELSE IF /\ followed
               /\ did \in {"status", "fields", "delete"}
               /\ last'.id = streak.id
               /\ last'.json.success
         THEN (IF settled THEN NoStreak ELSE [streak EXCEPT !.others = @ \cup {did}])
       ELSE streak

NextPair ==
  \/ CreateRequest(JwtOf("u1"), DefaultBody, TRUE) /\ ObservePair("create") /\ UNCHANGED client
  \/ \E id \in 1..MaxTodos, body \in PairBodies :
       /\ UpdateRequest(JwtOf("u1"), id, body, TRUE)
       /\ ObservePair(IF Has(body, "status") THEN "status" ELSE "fields")
       /\ UNCHANGED client
  \/ \E id \in 1..MaxTodos :
       DeleteRequest(JwtOf("u1"), id, TRUE) /\ ObservePair("delete") /\ UNCHANGED client
  \/ \E r \in DOMAIN toggles, id \in 1..MaxTodos :
       ToggleRequest(r, JwtOf("u1"), id, TRUE) /\ ObservePair("toggle") /\ UNCHANGED client
  \/ \E r \in DOMAIN toggles :
       ToggleResume(r, TRUE) /\ ObservePair("toggle") /\ UNCHANGED client

SpecPair == InitRace /\ [][NextPair]_vars

\* ------------------------------------------------------------ client page
\* what the request helper rejects with besides the server's failure envelopes: a
\* response without a body, no response at all
BareFailures ==
  {[response |-> [status |-> 401, data |-> <<>>]],
   [response |-> [status |-> 403, data |-> <<>>]],
   [message |-> "Network Error"]}

\* the error the request helper rejects with for a server answer
ErrorOf(status, json) == [response |-> [status |-> status, data |-> json]]

handleApiError(error) ==
  IF Has(error, "response") /\ Truthy(error.response.data, "message")
    THEN error.response.data.message
  ELSE IF Has(error, "response") /\ error.response.status = 401
    THEN "Please log in to access your todos"
  ELSE IF Has(error, "response") /\ error.response.status = 403
    THEN "You do not have permission to access this resource"
  ELSE IF Truthy(error, "message") THEN error.message
  ELSE "An unexpected error occurred"

\* message.includes(part), over the messages of this system
Includes(message, part) ==
  \/ part = "log in" /\ message = "Please log in to access your todos"
  \/ part = "permission" /\ message = "You do not have permission to access this resource"

retryThrice(failureCount, message) ==
  IF Includes(message, "log in") \/ Includes(message, "permission") THEN FALSE
  ELSE failureCount < 3

\* the retry option of the list query
retry(failureCount, message) ==
  IF Includes(message, "log in") \/ Includes(message, "permission") THEN FALSE
  ELSE failureCount < 2

\* the list query once its request settled: data, or the retryer asking retry and
\* running the query function again, or the error
QuerySettled(q, ok, error) ==
  IF ok THEN [q EXCEPT !.status = "success", !.fetching = FALSE]
  ELSE IF retry(q.failureCount, handleApiError(error))
    THEN [q EXCEPT !.failureCount = @ + 1, !.sent = @ + 1]
    ELSE [q EXCEPT !.status = "error", !.fetching = FALSE]

QueryStarted == [status |-> "loading", fetching |-> TRUE, failureCount |-> 0, sent |-> 1]

\* a mutation once its request settled: onSuccess invalidates the list query, which
\* fetches again; onError shows the message
MutationSettled(c, ok) ==
  IF ok THEN [query |-> QueryStarted, mutation |-> [c.mutation EXCEPT !.status = "success"]]
  ELSE [c EXCEPT !.mutation.status = "error"]

\* the page is opened, the filter changed or Retry pressed: the list query fetches
QueryFetch ==
  /\ ~client.query.fetching
  /\ client' = [client EXCEPT !.query = QueryStarted]
  /\ UNCHANGED <<store, nextId, now, toggles, last, streak>>

\* GET / is answered
QueryAnswer(jwt, ok) ==
  /\ client.query.fetching
  /\ ListRequest(jwt, <<>>, ok)
  /\ client' = [client EXCEPT !.query =
                   QuerySettled(@, last'.status = 200, ErrorOf(last'.status, last'.json))]
  /\ UNCHANGED streak

\* the request of the list query fails short of the handlers
QueryFailure(error) ==
  /\ client.query.fetching
  /\ client' = [client EXCEPT !.query = QuerySettled(@, FALSE, error)]
  /\ UNCHANGED <<store, nextId, now, toggles, last, streak>>

\* the user submits the form, confirms a deletion or clicks a status: mutate()
Mutate(op, id) ==
  /\ client.mutation.status # "loading"
  /\ client' = [client EXCEPT !.mutation = [status |-> "loading", op |-> op, id |-> id, sent |-> 1]]
  /\ UNCHANGED <<store, nextId, now, toggles, last, streak>>

\* the mutation's request is handled and answered; the toggle's in two steps
MutationAnswer(jwt, ok) ==
  /\ client.mutation.status = "loading"
  /\ LET m == client.mutation
     IN CASE m.op = "create" -> CreateRequest(jwt, DefaultBody, ok)
          [] m.op = "update" -> UpdateRequest(jwt, m.id, [status |-> "completed"], ok)
          [] m.op = "delete" -> DeleteRequest(jwt, m.id, ok)
          [] m.op = "toggle" ->
               \/ \E r \in DOMAIN toggles : ToggleRequest(r, jwt, m.id, ok)
               \/ \E r \in DOMAIN toggles : ToggleResume(r, ok)
  /\ client' = IF last' = last /\ toggles' # toggles THEN client
               ELSE MutationSettled(client, last'.status \in {200, 201})
  /\ UNCHANGED streak

NextClient ==
  \/ QueryFetch
  \/ \E jwt \in {JwtOf("u1"), [err |-> TRUE]}, ok \in BOOLEAN : QueryAnswer(jwt, ok)
  \/ \E e \in BareFailures : QueryFailure(e)
  \/ \E op \in {"create", "update", "delete", "toggle"}, id \in 1..MaxTodos : Mutate(op, id)
  \/ \E jwt \in {JwtOf("u1"), [err |-> TRUE]}, ok \in BOOLEAN : MutationAnswer(jwt, ok)

SpecClient == Init /\ [][NextClient]_vars

\* two callers filling the store over time, one of them listing pages of its items
ListQueries ==
  {<<>>, [limit |-> <<"2">>, skip |-> <<"1">>], [limit |-> <<"1", "0">>], [skip |-> <<"1">>]}

NextList ==
  \/ \E u \in Users :
       CreateRequestUpTo(MaxListed, JwtOf(u), DefaultBody, TRUE) /\ UNCHANGED <<streak, client>>
  \/ \E q \in {p \in ListQueries : Has(p, "limit") /\ Has(p, "skip")} :
       ListRequest(JwtOf("u1"), q, TRUE) /\ UNCHANGED <<streak, client>>
  \/ TickUpTo(MaxListed - 1)

SpecList == Init /\ [][NextList]_vars

\* ================================================================ claims
NotFound == [success |-> FALSE, message |-> "Todo not found"]

Enumeration == {"pending", "in_progress", "completed"}

\* length of a text once surrounding whitespace is dropped
TrimmedLen(s) ==
  LET inner == {i \in 1..Len(s) : s[i].ch \notin {" ", "\t", "\n"}}
  IN IF inner = {} THEN 0
     ELSE LET lo == CHOOSE i \in inner : \A j \in inner : i <= j
              hi == CHOOSE i \in inner : \A j \in inner : i >= j
          IN StrLen(SubSeq(s, lo, hi))

\* a payload every field of which meets the constraints of the data model
PayloadValid(body) ==
  /\ Has(body, "title") => TrimmedLen(body.title) \in 1..255
  /\ Has(body, "description") => TrimmedLen(body.description) <= 1000
  /\ Has(body, "status") => body.status \in Enumeration

AllUpdateBodies == UpdateBodies \cup UpdateTextBodies
AllCreateBodies == CreateBodies \cup CreateTextBodies

\* the answers of the four id-addressed routes to caller u for id, the store working
GetAnswer(u, id) == Route(JwtOf(u), store, getTodoController(store, ReqOf(u), id, TRUE))
DeleteAnswer(u, id) == Route(JwtOf(u), store, deleteTodoController(store, ReqOf(u), id, TRUE))
UpdateAnswer(u, id, body) ==
  Route(JwtOf(u), store, updateTodoController(store, now, ReqOf(u), id, body, TRUE))
ToggleAnswer(u, id) ==
  Route(JwtOf(u), store,
        toggleTodoStatusController(toggleTodoStatusRead(store, ReqOf(u), id, TRUE)))

Is404(a) == a.status = 404 /\ a.json = NotFound /\ a.store = store

ValidUpdateBodies == {body \in AllUpdateBodies : PayloadValid(body)}

\* Update answers a failure and changes nothing; 404 when the payload is valid
UpdateRefused(u, id, body) ==
  LET a == UpdateAnswer(u, id, body)
  IN /\ ~a.json.success
     /\ a.store = store
     /\ body \in ValidUpdateBodies => Is404(a)

\* C1: owner isolation. For an id that exists but belongs to another caller, Get,
\* Update, Delete and ToggleStatus answer exactly what they answer for an id that does
\* not exist: 404 with the message 'Todo not found' (an Update whose payload the
\* handler rejects answers that rejection for both ids alike), and the other owner's
\* item stays as it is; no request ever succeeded on an item of another owner.
C1_OwnerIsolation ==
  /\ \A u \in Users, id \in DOMAIN store :
       store[id].user # u =>
         \A m \in ReqIds \ DOMAIN store :
           /\ Is404(GetAnswer(u, id)) /\ GetAnswer(u, id) = GetAnswer(u, m)
           /\ Is404(DeleteAnswer(u, id)) /\ DeleteAnswer(u, id) = DeleteAnswer(u, m)
           /\ Is404(ToggleAnswer(u, id)) /\ ToggleAnswer(u, id) = ToggleAnswer(u, m)
           /\ \A body \in AllUpdateBodies :
                /\ UpdateAnswer(u, id, body) = UpdateAnswer(u, m, body)
                /\ UpdateRefused(u, id, body)
  /\ (/\ last.op \in {"get", "update", "delete", "toggle"}
      /\ last.id \in DOMAIN store
      /\ last.caller # store[last.id].user)
       => ~last.json.success

C1_Witness ==
  /\ last.op = "toggle"
  /\ last.id \in DOMAIN store
  /\ last.caller \in Users
  /\ last.caller # store[last.id].user
  /\ last.status = 404
  /\ last.json = NotFound

\* C2: every persisted item's status is pending, in_progress or completed, whatever
\* status values the clients of Create and Update supplied.
C2_StatusInEnumeration ==
  \A id \in DOMAIN store : store[id].status \in Enumeration

C2_Witness ==
  /\ last.op = "create"
  /\ last.status = 500
  /\ last.json.message = "ZodError"
  /\ \E id \in DOMAIN store : store[id].status = "completed"

\* the successor of a status in the cycle
Successor(s) ==
  IF s = "pending" THEN "in_progress"
  ELSE IF s = "in_progress" THEN "completed"
  ELSE "pending"

\* C3: a ToggleStatus on an item of the caller reads the item's status, and its write
\* stores and returns the fixed successor of the status it read: pending ->
\* in_progress, in_progress -> completed, completed -> pending, any other value ->
\* pending; with nothing interleaved that is the successor of the stored status.
C3_ToggleSuccessor ==
  /\ [](\A s \in StatusInputs \ Enumeration : NextStatus(s) = "pending")
  /\ [][\A r \in DOMAIN toggles :
          /\ (toggles[r] = Idle /\ toggles'[r] # Idle) =>
               /\ Matches(store, toggles'[r].id, toggles'[r].req.user.id)
               /\ toggles'[r].status = store[toggles'[r].id].status
               /\ toggles'[r].newStatus = Successor(toggles'[r].status)
          /\ (toggles[r] # Idle /\ toggles'[r] = Idle /\ last'.json.success) =>
               /\ last'.op = "toggle" /\ last'.id = toggles[r].id
               /\ store'[toggles[r].id].status = Successor(toggles[r].status)
               /\ last'.json.data = store'[toggles[r].id]
               /\ store[toggles[r].id].status = toggles[r].status
                    => store'[toggles[r].id].status = Successor(store[toggles[r].id].status)
       ]_vars

C3_Witness ==
  /\ last.op = "toggle"
  /\ last.status = 200
  /\ last.json.data.status = "pending"
  /\ last.id \in DOMAIN store
  /\ store[last.id].status = "pending"

\* C5: the item a successful Create persists and returns is owned by the
\* authenticated caller, whatever owner or user value the request body carries.
C5_CreateOwnerIsCaller ==
  /\ \A u \in Users, body \in AllCreateBodies :
       LET a == Route(JwtOf(u), store,
                      createTodoController(store, nextId, now, ReqOf(u), body, TRUE))
       IN a.status = 201 =>
            /\ a.json.data.user = u
            /\ nextId \notin DOMAIN store
            /\ nextId \in DOMAIN a.store
            /\ a.store[nextId].user = u
  /\ (last.op = "create" /\ last.status = 201) =>
       /\ last.json.data.user = last.caller
       /\ last.json.data.id \in DOMAIN store => store[last.json.data.id].user = last.caller

C5_Witness ==
  /\ last.op = "create"
  /\ last.status = 201
  /\ last.caller = "u1"
  /\ last.json.data.user = "u1"
  /\ \E body \in CreateBodies : Has(body, "user") /\ body.user # last.caller

\* ids that were given to an item since deleted
Deleted == {id \in 1..MaxTodos : id < nextId /\ id \notin DOMAIN store}

\* the answers List can give caller u for a query, the store working
ListAnswers(u, query) ==
  {Route(JwtOf(u), store, getTodosController(store, ReqOf(u), query, TRUE, ord)) :
     ord \in SortOutcomes(store, getTodosFilter(store, ReqOf(u), query))}

\* C6: Delete is a hard delete. A successful Delete removes the item; the id never
\* comes back; from then on Get, ToggleStatus and Delete on that id answer 404 to every
\* caller, so does every Update (one whose payload the handler rejects is refused and
\* never succeeds), and no List shows the item.
C6_HardDelete ==
  /\ []((last.op = "delete" /\ last.status = 200) => last.id \in Deleted)
  /\ [](\A id \in Deleted, u \in Users :
          /\ Is404(GetAnswer(u, id))
          /\ Is404(DeleteAnswer(u, id))
          /\ Is404(ToggleAnswer(u, id))
          /\ \A body \in AllUpdateBodies : UpdateRefused(u, id, body)
          /\ \A q \in Queries : \A a \in ListAnswers(u, q) :
               \A k \in 1..Len(a.json.data) : a.json.data[k].id # id)
  /\ []((last.op \in {"get", "update", "delete", "toggle"} /\ last.id \in Deleted)
          => ~last.json.success \/ last.op = "delete")
  /\ []((last.op = "list" /\ last.status = 200) =>
          \A k \in 1..Len(last.json.data) : last.json.data[k].id \notin Deleted)
  /\ [][\A id \in Deleted : id \notin DOMAIN store' /\ nextId' > id]_vars

C6_Witness ==
  /\ last.op = "get"
  /\ last.id \in Deleted
  /\ last.caller \in Users
  /\ last.status = 404

\* C9: for an id under which the caller has no item, Get, Delete and ToggleStatus
\* answer 404 with a failure envelope, and so does Update with a payload that meets
\* the constraints; whatever the payload, Update answers a failure envelope; none of
\* them creates, modifies or removes an item.
C9_NotFound ==
  /\ \A u \in Users, id \in ReqIds :
       ~(id \in DOMAIN store /\ store[id].user = u) =>
         /\ Is404(GetAnswer(u, id))
         /\ Is404(DeleteAnswer(u, id))
         /\ Is404(ToggleAnswer(u, id))
         /\ \A body \in AllUpdateBodies : UpdateRefused(u, id, body)
  /\ last.op \in {"get", "update", "delete", "toggle"} /\ last.status = 404
       => /\ last.json = NotFound
          /\ ~(last.id \in DOMAIN store /\ store[last.id].user = last.caller)

C9_Witness ==
  /\ last.op = "update"
  /\ last.status = 404
  /\ last.id \notin DOMAIN store
  /\ \E id \in DOMAIN store : store[id].user = last.caller

\* C10: on every route a request with no valid authenticated session is answered 401
\* with the failure envelope by the gate; no handler runs for it, and the store and
\* the requests in flight stay as they are. Only the gate answers 401.
C10_AuthGate ==
  /\ [](\A jwt \in JwtOutcomes :
          (jwt.err \/ ~Has(jwt, "user")) =>
            \A id \in ReqIds, ok \in BOOLEAN :
              \A a \in
                {Route(jwt, store, getTodoController(store, Req(jwt), id, ok)),
                 Route(jwt, store, deleteTodoController(store, Req(jwt), id, ok)),
                 Route(jwt, store,
                       toggleTodoStatusController(
                         toggleTodoStatusRead(store, Req(jwt), id, ok))),
                 Route(jwt, store, getTodosController(store, Req(jwt), <<>>, ok, <<>>))}
                \cup {Route(jwt, store,
                            updateTodoController(store, now, Req(jwt), id, body, ok)) :
                        body \in AllUpdateBodies}
                \cup {Route(jwt, store,
                            createTodoController(store, nextId, now, Req(jwt), body, ok)) :
                        body \in AllCreateBodies} :
                a = Respond(401, Unauthorized, store))
  /\ [](last.op # "none" =>
          /\ last.caller = "anonymous" => last.status = 401 /\ last.json = Unauthorized
          /\ last.status = 401 => last.caller = "anonymous")
  /\ [][(last'.op # "none" /\ last'.status = 401) =>
          /\ store' = store
          /\ nextId' = nextId
          /\ toggles' = toggles \/ last' = last]_vars

C10_Witness ==
  /\ last.op = "delete"
  /\ last.caller = "anonymous"
  /\ last.status = 401
  /\ 1 \in DOMAIN store

\* C4: three ToggleStatus calls on one item, one after the other with no other
\* mutation of it in between, bring the item back to the status it had before the
\* first; one call and two calls leave it on the first and second successor, so the
\* cycle has period exactly 3, from each of the three statuses.
C4_ToggleCycle ==
  (streak.id # 0 /\ \A r \in DOMAIN toggles : toggles[r] = Idle \/ toggles[r].id # streak.id)
    => /\ streak.id \in DOMAIN store
       /\ streak.from \in Enumeration
       /\ streak.n = 0 => store[streak.id].status = streak.from
       /\ streak.n = 1 => store[streak.id].status = Successor(streak.from)
       /\ streak.n = 2 => store[streak.id].status = Successor(Successor(streak.from))
       /\ streak.n = 3 => store[streak.id].status = streak.from
       /\ streak.n \in {1, 2} => store[streak.id].status # streak.from

C4_Witness ==
  /\ streak.id \in DOMAIN store
  /\ streak.n = 3
  /\ streak.from = "in_progress"
  /\ store[streak.id].status = "in_progress"
  /\ last.op = "toggle" /\ last.status = 200 /\ last.id = streak.id

TitleLen(body) == IF Has(body, "title") THEN TrimmedLen(body.title) ELSE 0

\* the fields of a Create payload other than the title meet their constraints
OthersValid(body) ==
  /\ Has(body, "description") => TrimmedLen(body.description) <= 1000
  /\ Has(body, "status") => body.status \in Enumeration

CreateAnswer(u, body) ==
  Route(JwtOf(u), store, createTodoController(store, nextId, now, ReqOf(u), body, TRUE))

\* C7: Create persists a new item exactly when the title, surrounding whitespace
\* dropped, is 1 to 255 long (the other fields valid, the caller authenticated, the
\* store working): an empty or whitespace-only title is answered 400, a title of 256
\* fails, one of 255 succeeds and is stored trimmed; a failed Create leaves the store
\* as it was; no persisted title is empty.
C7_CreateTitleBounds ==
  /\ \A u \in Users, body \in AllCreateBodies :
       LET a == CreateAnswer(u, body)
           persisted == a.store # store
       IN /\ OthersValid(body) => (persisted <=> TitleLen(body) \in 1..255)
          /\ persisted <=> a.status = 201
          /\ persisted =>
               /\ DOMAIN a.store = DOMAIN store \cup {nextId}
               /\ nextId \notin DOMAIN store
               /\ \A id \in DOMAIN store : a.store[id] = store[id]
               /\ StrLen(a.store[nextId].title) = TitleLen(body)
               /\ a.json.data = a.store[nextId]
          /\ TitleLen(body) = 0 => a.status = 400 /\ ~a.json.success
          /\ TitleLen(body) > 255 => ~a.json.success
  /\ \A id \in DOMAIN store :
       /\ StrLen(store[id].title) \in 1..255
       /\ TrimmedLen(store[id].title) = StrLen(store[id].title)
  /\ (last.op = "create" /\ last.status = 400) =>
       last.json = [success |-> FALSE, message |-> "Title is required"]

C7_Witness ==
  /\ last.op = "create"
  /\ last.status = 201
  /\ StrLen(last.json.data.title) = 255
  /\ last.json.data.id \in DOMAIN store
  /\ StrLen(store[last.json.data.id].title) = 255

\* a payload that breaks a constraint of the data model: on Create the title is
\* required, on Update every field is optional
InvalidCreate(body) ==
  \/ TitleLen(body) = 0
  \/ TitleLen(body) > 255
  \/ Has(body, "description") /\ TrimmedLen(body.description) > 1000
  \/ Has(body, "status") /\ body.status = "bogus"

InvalidUpdate(body) ==
  \/ Has(body, "title") /\ TitleLen(body) \notin 1..255
  \/ Has(body, "description") /\ TrimmedLen(body.description) > 1000
  \/ Has(body, "status") /\ body.status = "bogus"

\* C8: every validation failure on Create or Update (title empty, title longer than
\* 255, description longer than 1000, status outside the enumeration) is answered
\* with status code 400 and a failure envelope.
C8_ValidationAnswers400 ==
  [][/\ \A body \in CreateTextBodies :
          (InvalidCreate(body) /\ CreateRequest(JwtOf("u1"), body, TRUE))
            => last'.status = 400 /\ ~last'.json.success
     /\ \A body \in UpdateTextBodies, id \in 1..MaxTodos :
          (InvalidUpdate(body) /\ UpdateRequest(JwtOf("u1"), id, body, TRUE))
            => last'.status = 400 /\ ~last'.json.success
    ]_vars

\* the caller's items
Mine(u) == {id \in DOMAIN store : store[id].user = u}

\* the caller's items strictly newer than, and at least as new as, item d
Newer(u, d) == {id \in Mine(u) : store[id].createdAt > d.createdAt}
AsNew(u, d) == {id \in Mine(u) : store[id].createdAt >= d.createdAt}

\* the skip and limit a query of ListQueries asks for
QuerySkip(q) ==
  IF ~Has(q, "skip") THEN 0 ELSE IF q.skip = <<"1">> THEN 1 ELSE 99
QueryLimit(q) ==
  IF ~Has(q, "limit") THEN 50
  ELSE IF q.limit = <<"2">> THEN 2
  ELSE IF q.limit = <<"1", "0">> THEN 10 ELSE 99

\* data is the window [skip + 1, skip + limit] of the caller's items ranked by
\* descending createdAt
IsWindow(u, data, skip, limit) ==
  /\ Len(data) = (IF Cardinality(Mine(u)) - skip < 0 THEN 0
                  ELSE IF Cardinality(Mine(u)) - skip < limit
                    THEN Cardinality(Mine(u)) - skip ELSE limit)
  /\ \A k \in 1..Len(data) :
       /\ data[k].id \in Mine(u)
       /\ data[k] = store[data[k].id]
       /\ Cardinality(Newer(u, data[k])) <= skip + k - 1
       /\ Cardinality(AsNew(u, data[k])) >= skip + k
  /\ \A j, k \in 1..Len(data) :
       j < k => data[j].createdAt >= data[k].createdAt /\ data[j].id # data[k].id

\* no two of the caller's items were created at the same instant
DistinctTimes(u) ==
  \A i, j \in Mine(u) : i # j => store[i].createdAt # store[j].createdAt

\* C11: List answers the caller's items newest createdAt first, skip applied to that
\* order and then limit: the item at position k of the answer is ranked skip + k, and
\* the answer is as long as the order allows. With 5 items created at distinct
\* instants, limit = 2 and skip = 1 it is exactly the 2nd and the 3rd newest, in
\* that order.
C11_ListWindow ==
  /\ \A ord \in SortOutcomes(store, Mine("u1")) : \A q \in ListQueries :
       LET a == Route(JwtOf("u1"), store,
                      getTodosController(store, ReqOf("u1"), q, TRUE, ord))
       IN
       /\ SortedFind(store, getTodosFilter(store, ReqOf("u1"), q), ord)
       /\ a.status = 200 /\ a.json.success /\ a.store = store
       /\ a.json.count = Len(a.json.data)
       /\ IsWindow("u1", a.json.data, QuerySkip(q), QueryLimit(q))
       /\ (/\ q = [limit |-> <<"2">>, skip |-> <<"1">>]
           /\ Cardinality(Mine("u1")) = 5
           /\ DistinctTimes("u1"))
            => /\ Len(a.json.data) = 2
               /\ Cardinality(Newer("u1", a.json.data[1])) = 1
               /\ Cardinality(Newer("u1", a.json.data[2])) = 2
  /\ last.op = "list" =>
       \E q \in ListQueries : IsWindow("u1", last.json.data, QuerySkip(q), QueryLimit(q))

C11_Witness ==
  /\ last.op = "list"
  /\ Cardinality(Mine("u1")) = 5
  /\ DistinctTimes("u1")
  /\ last.json.count = 2
  /\ Len(last.json.data) = 2
  /\ last.json.data[1] = store[4]
  /\ last.json.data[2] = store[3]

\* the ids of the items a List answer carries
AnswerIds(a) == {a.json.data[k].id : k \in 1..Len(a.json.data)}

StatusQueries == {[status |-> x] : x \in StatusInputs}

\* C12: List answers only items the caller owns. With a status filter that is one of
\* the three values it answers exactly the caller's items of that status; with a
\* status filter that is present but not one of the three (or empty) it answers 200
\* with the caller's items of every status, as it does with no filter.
C12_ListFilter ==
  /\ \A u \in Users : \A q \in Queries \cup StatusQueries : \A a \in ListAnswers(u, q) :
       /\ a.status = 200 /\ a.json.success /\ a.store = store
       /\ \A k \in 1..Len(a.json.data) :
            /\ a.json.data[k].user = u
            /\ a.json.data[k] = store[a.json.data[k].id]
       /\ (Has(q, "status") /\ q.status \in Enumeration) =>
            /\ \A k \in 1..Len(a.json.data) : a.json.data[k].status = q.status
            /\ AnswerIds(a) = {id \in Mine(u) : store[id].status = q.status}
       /\ (Has(q, "status") /\ q.status \notin Enumeration) =>
            /\ AnswerIds(a) = Mine(u)
            /\ a \in ListAnswers(u, <<>>)
  /\ (last.op = "list" /\ last.status = 200) =>
       \A k \in 1..Len(last.json.data) :
         /\ last.json.data[k].user = last.caller
         /\ last.json.data[k] = store[last.json.data[k].id]

C12_Witness ==
  /\ last.op = "list"
  /\ last.status = 200
  /\ last.caller = "u1"
  /\ Cardinality(DOMAIN store) = 2
  /\ \E i, j \in DOMAIN store :
       /\ store[i].user = "u1" /\ store[i].status = "completed"
       /\ store[j].user = "u2" /\ store[j].status = "completed"
       /\ last.json.count = 1
       /\ last.json.data = <<store[i]>>

\* a text with the surrounding whitespace dropped
TrimmedText(s) ==
  LET inner == {i \in 1..Len(s) : s[i].ch \notin {" ", "\t", "\n"}}
  IN IF inner = {} THEN <<>>
     ELSE SubSeq(s, CHOOSE i \in inner : \A j \in inner : i <= j,
                    CHOOSE i \in inner : \A j \in inner : i >= j)

\* field f of the item after an Update with body: the value supplied, or the old one
FieldAfter(old, new, body, f) ==
  IF Has(body, f)
    THEN Has(new, f) /\ new[f] = (IF f = "status" THEN body[f] ELSE TrimmedText(body[f]))
    ELSE (Has(new, f) <=> Has(old, f)) /\ (Has(old, f) => new[f] = old[f])

\* C13: a successful Update replaces the fields among title, description and status
\* that the payload supplies (texts trimmed), sets updatedAt to the time of the
\* request and leaves every other field of the item, every other item, and the set
\* of items as they were; it answers the item as stored.
C13_UpdateFrame ==
  [][\A jwt \in UserJwts, id \in 1..MaxTodos, body \in FrameBodies :
       (/\ last'.op = "update" /\ last'.status = 200
        /\ last'.id = id /\ last'.caller = jwt.user.id
        /\ UpdateRequest(jwt, id, body, TRUE)) =>
         /\ id \in DOMAIN store
         /\ store[id].user = jwt.user.id
         /\ DOMAIN store' = DOMAIN store
         /\ \A j \in DOMAIN store \ {id} : store'[j] = store[j]
         /\ \A f \in {"title", "description", "status"} :
              FieldAfter(store[id], store'[id], body, f)
         /\ store'[id].updatedAt = now
         /\ store'[id].id = store[id].id
         /\ store'[id].user = store[id].user
         /\ store'[id].createdAt = store[id].createdAt
         /\ DOMAIN store'[id] \subseteq
              {"id", "title", "description", "status", "user", "createdAt", "updatedAt"}
         /\ last'.json.data = store'[id]
    ]_vars

C13_Witness ==
  /\ last.op = "update"
  /\ last.status = 200
  /\ Cardinality(DOMAIN store) = 2
  /\ last.json.data = store[last.id]
  /\ store[last.id].title = TitleB
  /\ Has(store[last.id], "description")
  /\ store[last.id].description = DescE
  /\ store[last.id].status = "pending"
  /\ store[last.id].createdAt = 0
  /\ store[last.id].updatedAt = 1

\* C14: every persisted item has updatedAt >= createdAt, neither of them in the
\* future; a Create persists the item with updatedAt = createdAt = the time of the
\* request, and every successful Update and every successful ToggleStatus sets the
\* item's updatedAt to the time of its write, never earlier than it was.
C14_UpdatedAtOrder ==
  /\ [](\A id \in DOMAIN store :
          /\ store[id].updatedAt >= store[id].createdAt
          /\ store[id].updatedAt <= now)
  /\ [][/\ \A id \in DOMAIN store' \ DOMAIN store :
            /\ last'.op = "create" /\ last'.status = 201
            /\ store'[id].createdAt = now
            /\ store'[id].updatedAt = store'[id].createdAt
        /\ (last'.op \in {"update", "toggle"} /\ last'.status = 200 /\ last' # last) =>
            /\ last'.id \in DOMAIN store
            /\ store'[last'.id].updatedAt = now
            /\ store'[last'.id].updatedAt >= store[last'.id].updatedAt
            /\ last'.json.data.updatedAt = now
        /\ \A jwt \in UserJwts, id \in 1..MaxTodos :
             (/\ last'.op = "update" /\ last'.status = 200 /\ last'.id = id
              /\ UpdateRequest(jwt, id, <<>>, TRUE))
               => store'[id].updatedAt = now
        /\ \A r \in DOMAIN toggles :
             (toggles[r] # Idle /\ toggles'[r] = Idle /\ last'.status = 200)
               => store'[toggles[r].id].updatedAt = now
       ]_vars

C14_Witness ==
  /\ last.op = "toggle"
  /\ last.status = 200
  /\ last.id \in DOMAIN store
  /\ store[last.id].createdAt = 0
  /\ store[last.id].updatedAt = 1
  /\ \E id \in DOMAIN store : store[id].createdAt = 1 /\ store[id].updatedAt = 1

\* C15: no request changes the id, the owner or the createdAt of an existing item:
\* whatever Update (also one whose body carries id, user, owner, createdAt) or
\* ToggleStatus any caller sends, an item that stays in the store keeps the three
\* values; its id is the one it is stored under, and a request of a caller who does
\* not own the item changes nothing of it.
C15_ImmutableFields ==
  /\ [](\A id \in DOMAIN store : store[id].id = id /\ store[id].user \in Users)
  /\ [][/\ \A id \in DOMAIN store \cap DOMAIN store' :
            /\ store'[id].id = store[id].id
            /\ store'[id].user = store[id].user
            /\ store'[id].createdAt = store[id].createdAt
        /\ \A id \in DOMAIN store :
             (last' # last /\ last'.caller # store[id].user)
               => id \in DOMAIN store' /\ store'[id] = store[id]
       ]_vars

C15_Witness ==
  /\ last.op = "update"
  /\ last.status = 200
  /\ last.caller = "u1"
  /\ store[last.id].status = "in_progress"
  /\ Has(store[last.id], "description")
  /\ store[last.id].title = TitleB
  /\ store[last.id].id = last.id
  /\ store[last.id].user = "u1"
  /\ store[last.id].createdAt = 0
  /\ store[last.id].updatedAt = 1
  /\ toggles = [r \in DOMAIN toggles |-> Idle]

\* C16: a Create whose payload has no status (or an empty one) persists the item
\* with status pending, one with a status of the enumeration persists that status;
\* either way, title and description valid, the answer is 201 with the success
\* envelope carrying the item exactly as persisted under a fresh id.
C16_CreateStatus ==
  /\ [](\A u \in Users, body \in AllCreateBodies :
          LET a == CreateAnswer(u, body)
              valid == TitleLen(body) \in 1..255 /\ OthersValid(body)
          IN /\ (valid /\ ~Truthy(body, "status")) =>
                  a.status = 201 /\ a.store[nextId].status = "pending"
             /\ (valid /\ Truthy(body, "status")) =>
                  a.status = 201 /\ a.store[nextId].status = body.status
             /\ a.status = 201 =>
                  /\ a.json.success
                  /\ a.json.data = a.store[nextId]
                  /\ a.json.data.status \in Enumeration
                  /\ a.json.data.id = nextId
             /\ a.json.success => a.status = 201)
  /\ [][(last' # last /\ last'.op = "create" /\ last'.json.success) =>
          /\ last'.status = 201
          /\ nextId \notin DOMAIN store
          /\ DOMAIN store' = DOMAIN store \cup {nextId}
          /\ store'[nextId] = last'.json.data
          /\ nextId' = nextId + 1
       ]_vars

C16_Witness ==
  /\ last.op = "create"
  /\ last.status = 201
  /\ last.json.data.status = "completed"
  /\ last.json.data.id = 2
  /\ 2 \in DOMAIN store
  /\ store[2] = last.json.data
  /\ 1 \in DOMAIN store
  /\ store[1].status = "pending"

\* C17: a request that fails because it reaches the data access layer without a
\* caller identity (the session's user record carries no id), failing there with
\* 'User not authenticated', is answered with status code 401.
C17_UnauthenticatedAnswers401 ==
  (/\ last.op # "none"
   /\ ~last.json.success
   /\ last.json.message = "User not authenticated")
    => last.status = 401

\* the step answered a store failure: 500, the failure envelope with the error's
\* message, the store and the id counter as they were
StoreFailureAnswered ==
  /\ last'.status = 500
  /\ last'.json = [success |-> FALSE, message |-> "StorageError"]
  /\ store' = store
  /\ nextId' = nextId

\* C18: when the store fails during an operation of an authenticated caller, the
\* handler answers 500 with the failure envelope carrying the error's message; the
\* request is answered in that step and is in flight no longer (one answer), and the
\* store is as it was before the operation; so for the toggle's read and its write.
C18_StoreFailure ==
  [][/\ ListRequest(JwtOf("u1"), <<>>, FALSE) =>
          StoreFailureAnswered /\ last'.op = "list" /\ toggles' = toggles
     /\ GetRequest(JwtOf("u1"), 1, FALSE) =>
          StoreFailureAnswered /\ last'.op = "get" /\ toggles' = toggles
     /\ CreateRequest(JwtOf("u1"), DefaultBody, FALSE) =>
          StoreFailureAnswered /\ last'.op = "create" /\ toggles' = toggles
     /\ UpdateRequest(JwtOf("u1"), 1, <<>>, FALSE) =>
          StoreFailureAnswered /\ last'.op = "update" /\ toggles' = toggles
     /\ DeleteRequest(JwtOf("u1"), 1, FALSE) =>
          StoreFailureAnswered /\ last'.op = "delete" /\ toggles' = toggles
     /\ \A r \in DOMAIN toggles :
          /\ ToggleRequest(r, JwtOf("u1"), 1, FALSE) =>
               StoreFailureAnswered /\ last'.op = "toggle" /\ toggles' = toggles
          /\ ToggleResume(r, FALSE) =>
               /\ StoreFailureAnswered /\ last'.op = "toggle"
               /\ toggles'[r] = Idle
               /\ \A x \in DOMAIN toggles \ {r} : toggles'[x] = toggles[x]
    ]_vars

C18_Witness ==
  /\ last.op = "toggle"
  /\ last.status = 500
  /\ last.json = [success |-> FALSE, message |-> "StorageError"]
  /\ last.id \in DOMAIN store
  /\ store[last.id].user = last.caller
  /\ store[last.id].status = "completed"
  /\ toggles = [r \in DOMAIN toggles |-> Idle]

\* C19: ToggleStatus reads, then writes in a later step, and its write is not
\* conditional on the status it read: it lands on the caller's item whatever status
\* is stored by then and stores the successor of the status read (the last write
\* wins). So of two toggles that both read the same status of an item before either
\* wrote, both succeed and each leaves the item on the successor of that status: the
\* two together advance it by one step, not two.
C19_ToggleRace ==
  [][\A r \in DOMAIN toggles :
       /\ (toggles[r] # Idle /\ toggles'[r] = Idle
             /\ Matches(store, toggles[r].id, toggles[r].req.user.id)) =>
            /\ last'.op = "toggle" /\ last'.status = 200
            /\ store'[toggles[r].id].status = toggles[r].newStatus
            /\ toggles[r].newStatus = Successor(toggles[r].status)
            /\ last'.json.data = store'[toggles[r].id]
       /\ (streak.id # 0 /\ streak'.id = streak.id /\ streak'.n = streak.n + 1) =>
            /\ store'[streak.id].status = Successor(streak.from)
            /\ store'[streak.id].status # Successor(Successor(streak.from))
            /\ last'.json.data.status = Successor(streak.from)
    ]_vars

C19_Witness ==
  /\ streak.id # 0
  /\ streak.n = 2
  /\ streak.from = "pending"
  /\ streak.id \in DOMAIN store
  /\ store[streak.id].status = "in_progress"
  /\ last.op = "toggle" /\ last.status = 200 /\ last.id = streak.id
  /\ toggles = [r \in DOMAIN toggles |-> Idle]

\* C20 as stated: Update, like ToggleStatus, performs a read followed by a separate
\* write, so that another request's write to the same id can land between the two:
\* every successful write of an Update or a ToggleStatus is the later step of a
\* request that read the item in an earlier step and was in flight since.
C20_UpdateReadThenWrite ==
  [][(last' # last /\ last'.op \in {"update", "toggle"} /\ last'.json.success) =>
       \E r \in DOMAIN toggles :
         /\ toggles[r] # Idle
         /\ toggles'[r] = Idle
         /\ toggles[r].id = last'.id
    ]_vars

\* C20 amended: Update is one conditional write; matching the caller's item and
\* replacing its fields are a single step of the store, so no other request's write
\* lands between them and an Update is never in flight across another request: it
\* answers 200 with the item as stored by that step exactly when the caller's item is
\* in the store at that step, and 404 changing nothing otherwise. It neither waits
\* for nor disturbs a ToggleStatus in flight on the same id, which alone reads and
\* writes in separate steps.
C20_UpdateOneStep ==
  [][\A id \in 1..MaxTodos :
       (/\ last'.op = "update" /\ last'.id = id
        /\ UpdateRequest(JwtOf("u1"), id, [status |-> "completed"], TRUE)) =>
         /\ toggles' = toggles
         /\ IF Matches(store, id, "u1")
              THEN /\ last'.status = 200
                   /\ store' = [store EXCEPT ![id] =
                                   [@ EXCEPT !.status = "completed", !.updatedAt = now]]
                   /\ last'.json.data = store'[id]
              ELSE /\ last'.status = 404
                   /\ store' = store
    ]_vars

C20_Witness ==
  /\ last.op = "update"
  /\ last.status = 200
  /\ last.id \in DOMAIN store
  /\ store[last.id].status = "completed"
  /\ \E r \in DOMAIN toggles :
       /\ toggles[r] # Idle
       /\ toggles[r].id = last.id
       /\ toggles[r].status = "pending"

\* a handler that answered a failure has left nothing of its request in flight
HandlerAnswersOnce ==
  (last' # last /\ ~last'.json.success) =>
    \A r \in DOMAIN toggles : toggles'[r] # Idle => toggles'[r] = toggles[r]

\* the list query sends its request again without the user acting
QueryResent == client.query.sent >= 1 /\ client'.query.sent = client.query.sent + 1

PairDone ==
  /\ streak.id # 0
  /\ streak.reads = 2
  /\ streak.n = 2
  /\ streak.others = {}

\* C22: for an item with status S, after two ToggleStatus requests in any
\* interleaving of their reads and writes, and no other mutation of the item, the
\* stored status is succ(S) or succ(succ(S)), never S; it is succ(S) when the
\* second read before the first wrote.
C22_TwoToggles ==
  PairDone =>
    /\ streak.id \in DOMAIN store
    /\ store[streak.id].status \in {Successor(streak.from), Successor(Successor(streak.from))}
    /\ store[streak.id].status # streak.from
    /\ streak.overlap => store[streak.id].status = Successor(streak.from)

C22_Witness ==
  /\ PairDone
  /\ streak.overlap
  /\ streak.from = "in_progress"
  /\ store[streak.id].status = "completed"
  /\ toggles = [r \in DOMAIN toggles |-> Idle]

\* two toggles one after the other, for comparison: the item is two steps on
C22_Serial ==
  /\ PairDone
  /\ ~streak.overlap
  /\ store[streak.id].status = Successor(Successor(streak.from))

\* toggle r writes and answers in this step
Resumes(r) == toggles[r] # Idle /\ toggles'[r] = Idle

\* C23: a ToggleStatus whose item was deleted between its read and its write does
\* not re-create the item: its write changes nothing, and an id once removed from
\* the store is never in it again.
C23_ToggleAfterDelete ==
  /\ [][\A r \in DOMAIN toggles :
          (Resumes(r) /\ toggles[r].id \notin DOMAIN store) =>
             /\ store' = store
             /\ toggles[r].id \notin DOMAIN store']_vars
  /\ [][\A id \in 1..MaxTodos :
          (id < nextId /\ id \notin DOMAIN store) => id \notin DOMAIN store']_vars

\* a toggle read the item, a Delete removed it, the toggle has written: no item
C23_Witness ==
  /\ streak.id # 0
  /\ streak.others = {"delete"}
  /\ streak.failed = 1
  /\ streak.racers = {}
  /\ streak.id \notin DOMAIN store
  /\ last.op = "toggle" /\ last.id = streak.id

\* C24: ToggleStatus answers a success envelope only when its write matched an
\* item of the caller in the store, and the envelope's data is that item as stored,
\* its status in the enumeration; a toggle whose item is gone when it writes
\* answers a failure envelope (500) without data, and a toggle that answers at its
\* read answers a failure.
C24_ToggleSuccessOnlyOnMatch ==
  [][/\ \A r \in DOMAIN toggles :
          Resumes(r) =>
            /\ last'.op = "toggle" /\ last'.id = toggles[r].id
            /\ IF Matches(store, toggles[r].id, toggles[r].req.user.id)
                 THEN /\ last'.status = 200 /\ last'.json.success
                      /\ Has(last'.json, "data")
                      /\ last'.json.data = store'[toggles[r].id]
                      /\ last'.json.data.user = toggles[r].req.user.id
                      /\ todoStatusSchema(last'.json.data.status)
                 ELSE /\ last'.status = 500 /\ ~last'.json.success
                      /\ ~Has(last'.json, "data")
     /\ (toggles' = toggles /\ last'.op = "toggle" /\ last' # last) => ~last'.json.success
    ]_vars

C24_Witness ==
  /\ streak.id # 0
  /\ "delete" \in streak.others
  /\ streak.failed = 1 /\ streak.n = 0
  /\ last.op = "toggle" /\ last.id = streak.id
  /\ last.status = 500 /\ ~last.json.success /\ ~Has(last.json, "data")

\* C25: the write of ToggleStatus sets status and updatedAt and nothing else: the
\* title and description of the item after the write are those stored just before
\* it, so those of an Update that landed since the toggle read; the status after
\* the write is the successor of the status the toggle read, whatever status an
\* Update has stored since.
C25_ToggleWritesStatusOnly ==
  [][\A r \in DOMAIN toggles :
       (Resumes(r) /\ Matches(store, toggles[r].id, toggles[r].req.user.id)) =>
          LET old == store[toggles[r].id]
              new == store'[toggles[r].id]
          IN /\ \A f \in {"title", "description", "id", "user", "createdAt"} :
                  FieldAfter(old, new, <<>>, f)
             /\ DOMAIN new = DOMAIN old \cup {"status", "updatedAt"}
             /\ new.status = Successor(toggles[r].status)
             /\ new.updatedAt = now
             /\ \A i \in DOMAIN store \ {toggles[r].id} :
                  i \in DOMAIN store' /\ store'[i] = store[i]
    ]_vars

\* a toggle read pending; Updates then stored a title, a description and the
\* status completed; the toggle has written: the Update's texts, in_progress
C25_Witness ==
  /\ streak.id # 0
  /\ streak.others = {"fields", "status"}
  /\ streak.reads = 1 /\ streak.n = 1
  /\ streak.from = "pending"
  /\ store[streak.id].title = TitleB
  /\ store[streak.id].description = DescE
  /\ store[streak.id].status = "in_progress"
  /\ last.op = "toggle" /\ last.status = 200 /\ last.id = streak.id
====
